---- MODULE Spec2Model ----
(***************************************************************************)
(* A model of txt_to_parquet.py: the incremental conversion runner with    *)
(* its per-directory conversion log, the header locator, the chunked       *)
(* loader and the running-maximum transform of the schema normaliser.      *)
(***************************************************************************)
EXTENDS Integers, Sequences, FiniteSets, TLC

\* ------------------------------------------------------------------------
\* Bounds of the model
\* ------------------------------------------------------------------------
MaxRuns == 2      \* executions of the script
MaxEnv == 1       \* changes made to the tree between executions
MaxMtime == 2     \* modification times are 1..MaxMtime
MaxLines == 2     \* lines of a file given to retrieve_column_names
MaxRows == 3      \* data rows of a file given to the loaders
MaxChunk == 3     \* chunk_rows is 1..MaxChunk
MaxLen == 4       \* rows of a table given to format_dataframe_to_bdf
MaxVal == 2       \* raw elapsed-time values are 0..MaxVal

\* ------------------------------------------------------------------------
\* The tree walked by the runner: directories in os.walk order, each with
\* the filenames os.walk lists for it.  A filename is <<stem, extension>>.
\* ------------------------------------------------------------------------
Tree ==
    << << <<"a", "txt">>, <<"n", "dat">>, <<"b", "txt">> >>,
       << <<"a", "txt">> >> >>

Dirs == 1..Len(Tree)

\* every file of the tree, as <<directory, filename>>
Files == UNION { { <<d, Tree[d][i]>> : i \in 1..Len(Tree[d]) } : d \in Dirs }

FilesOf(d) == { f \in Files : f[1] = d }

\* filename.endswith(".txt")
EndsWithTxt(filename) == filename[2] = "txt"

\* the files the runner reads: the others it only lists
TxtFiles == { f \in Files : EndsWithTxt(f[2]) }

\* os.path.relpath(os.path.join(dirpath, filename), dirpath)
RelPathKey(d, filename) == filename

EmptyLog == [k \in {} |-> 0]

NoLogFile == [kind |-> "none", map |-> EmptyLog]
BadLogFile == [kind |-> "bad", map |-> EmptyLog]
LogFile(m) == [kind |-> "ok", map |-> m]

VARIABLES
    present,      \* present[f]: the file exists in the tree
    mtime,        \* mtime[f]: os.path.getmtime of the file
    parquet,      \* parquet[f]: the file's .bdf.parquet: "none", "current" (made
                  \* from the file's present content) or "outdated"
    disk,         \* disk[d]: conversion_log.json of directory d
    pc,           \* "idle" | "load" | "files"
    dir,          \* directory the walk is at
    idx,          \* position in the directory's filenames
    log,          \* the runner's log (empty while no run is going on)
    updated_log,  \* the runner's updated_log (likewise)
    outcome,      \* outcome[f], what the run printed for f: "skipped" (Skipping),
                  \* "ok" (Processing), "failed" (Processing, Failed to process),
                  \* "none" (nothing yet)
    writes,       \* writes[d]: times directory d's log was written in this run
    ended,        \* how the last run ended: "none" | "completed" | "crashed" | "interrupted"
    prev,         \* the previous run: its outcome, ended and dir, and whether
                  \* the tree was changed after it
    dirty,        \* the tree was changed since this run ended
    runs,         \* executions started
    env           \* changes made to the tree

runnerVars == << present, mtime, parquet, disk, pc, dir, idx, log,
                 updated_log, outcome, writes, ended, prev, dirty,
                 runs, env >>

\* the filenames os.walk lists for directory d
Filenames(d) == SelectSeq(Tree[d], LAMBDA n : present[<<d, n>>])

NoOutcome == [f \in Files |-> "none"]

\* what earlier runs may have left in the tree: nothing, or the output and
\* the log entry of the first directory's first file
EarlierRuns == { {}, { <<1, Tree[1][1]>> } }

RunnerStart(done) ==
    /\ present = [f \in Files |-> TRUE]
    /\ mtime = [f \in Files |-> 1]
    /\ parquet = [f \in Files |-> IF f \in done THEN "current" ELSE "none"]
    /\ disk = [d \in Dirs |->
                 IF FilesOf(d) \cap done = {} THEN NoLogFile
                 ELSE LogFile([k \in { f[2] : f \in FilesOf(d) \cap done }
                                 |-> 1])]
    /\ pc = "idle"
    /\ dir = 1
    /\ idx = 1
    /\ log = EmptyLog
    /\ updated_log = EmptyLog
    /\ outcome = NoOutcome
    /\ writes = [d \in Dirs |-> 0]
    /\ ended = "none"
    /\ prev = [outcome |-> NoOutcome, ended |-> "none", dir |-> 1,
               changed |-> FALSE]
    /\ dirty = FALSE
    /\ runs = 0
    /\ env = 0

RunnerInit == \E done \in EarlierRuns : RunnerStart(done)

\* the runner is not running
RunnerOff == RunnerStart({})

\* ------------------------------------------------------------------------
\* Conversion log (lines 17-25)
\* ------------------------------------------------------------------------

\* load_conversion_log: json.load of an existing file, {} when there is none.
\* A malformed file makes json.load raise; nothing catches it.
LoadRaises(file) == file.kind = "bad"

load_conversion_log(file) == IF file.kind = "ok" THEN file.map ELSE EmptyLog

\* save_conversion_log: the file holds log_data
save_conversion_log(log_data) == LogFile(log_data)

\* faulty variant: the entry replaces the mapping
SetEntry_Only(m, key, mod_time) == [k \in {key} |-> mod_time]

\* updated_log[rel_path_key] = mod_time
SetEntry(m, key, mod_time) ==
    [k \in DOMAIN m \cup {key} |-> IF k = key THEN mod_time ELSE m[k]]

\* faulty variant: the stored value is not compared
SkipCond_KeyOnly(m, key, mod_time) == key \in DOMAIN m

\* rel_path_key in log and log[rel_path_key] == mod_time
SkipCond(m, key, mod_time) == key \in DOMAIN m /\ m[key] = mod_time

\* ------------------------------------------------------------------------
\* The runner (lines 132-162)
\* ------------------------------------------------------------------------
treeVars == << present, mtime >>

\* the script is started
StartRun ==
    /\ pc = "idle"
    /\ runs < MaxRuns
    /\ runs' = runs + 1
    /\ pc' = "load"
    /\ dir' = 1
    /\ idx' = 1
    /\ log' = EmptyLog
    /\ updated_log' = EmptyLog
    /\ prev' = [outcome |-> outcome, ended |-> ended, dir |-> dir,
                changed |-> dirty]
    /\ outcome' = NoOutcome
    /\ writes' = [d \in Dirs |-> 0]
    /\ ended' = "none"
    /\ dirty' = FALSE
    /\ UNCHANGED << treeVars, parquet, disk, env >>

\* lines 136-138: log = load_conversion_log(log_path); updated_log = log.copy()
LoadLog ==
    /\ pc = "load"
    /\ IF LoadRaises(disk[dir])
       THEN /\ pc' = "idle"
            /\ ended' = "crashed"
            /\ log' = EmptyLog
            /\ updated_log' = EmptyLog
            /\ idx' = 1
       ELSE /\ log' = load_conversion_log(disk[dir])
            /\ updated_log' = load_conversion_log(disk[dir])
            /\ idx' = 1
            /\ pc' = "files"
            /\ UNCHANGED ended
    /\ UNCHANGED << treeVars, parquet, disk, dir, outcome, writes,
                    prev, dirty, runs, env >>

AtFile == pc = "files" /\ idx <= Len(Filenames(dir))

CurName == Filenames(dir)[idx]
CurFile == <<dir, CurName>>
CurKey == RelPathKey(dir, CurName)

\* lines 141-142: not a .txt file
SkipOther ==
    /\ AtFile
    /\ ~EndsWithTxt(CurName)
    /\ idx' = idx + 1
    /\ UNCHANGED << treeVars, parquet, disk, pc, dir, log, updated_log,
                    outcome, writes, ended, prev, dirty, runs, env >>

\* lines 148-150: the log holds the file's modification time
SkipUnchanged ==
    /\ AtFile
    /\ EndsWithTxt(CurName)
    /\ SkipCond(log, CurKey, mtime[CurFile])
    /\ outcome' = [outcome EXCEPT ![CurFile] = "skipped"]
    /\ idx' = idx + 1
    /\ UNCHANGED << treeVars, parquet, disk, pc, dir, log, updated_log,
                    writes, ended, prev, dirty, runs, env >>

\* faulty variant: the log file is written after each converted file
ConvertOk_SavesEachFile ==
    /\ AtFile
    /\ EndsWithTxt(CurName)
    /\ ~SkipCond(log, CurKey, mtime[CurFile])
    /\ parquet' = [parquet EXCEPT ![CurFile] = "current"]
    /\ updated_log' = SetEntry(updated_log, CurKey, mtime[CurFile])
    /\ disk' = [disk EXCEPT ![dir] = save_conversion_log(updated_log')]
    /\ outcome' = [outcome EXCEPT ![CurFile] = "ok"]
    /\ idx' = idx + 1
    /\ UNCHANGED << treeVars, pc, dir, log, writes, ended, prev,
                    dirty, runs, env >>

\* lines 152-158: the four pipeline steps succeed
ConvertOk ==
    /\ AtFile
    /\ EndsWithTxt(CurName)
    /\ ~SkipCond(log, CurKey, mtime[CurFile])
    /\ parquet' = [parquet EXCEPT ![CurFile] = "current"]
    /\ updated_log' = SetEntry(updated_log, CurKey, mtime[CurFile])
    /\ outcome' = [outcome EXCEPT ![CurFile] = "ok"]
    /\ idx' = idx + 1
    /\ UNCHANGED << treeVars, disk, pc, dir, log, writes, ended, prev,
                    dirty, runs, env >>

\* faulty variant: the error is not caught
ConvertFails_Uncaught ==
    /\ AtFile
    /\ EndsWithTxt(CurName)
    /\ ~SkipCond(log, CurKey, mtime[CurFile])
    /\ outcome' = [outcome EXCEPT ![CurFile] = "failed"]
    /\ pc' = "idle"
    /\ ended' = "crashed"
    /\ log' = EmptyLog
    /\ updated_log' = EmptyLog
    /\ idx' = 1
    /\ UNCHANGED << treeVars, parquet, disk, dir, writes, prev, dirty,
                    runs, env >>

\* faulty variant: the entry is recorded although the pipeline failed
ConvertFails_Records ==
    /\ AtFile
    /\ EndsWithTxt(CurName)
    /\ ~SkipCond(log, CurKey, mtime[CurFile])
    /\ updated_log' = SetEntry(updated_log, CurKey, mtime[CurFile])
    /\ outcome' = [outcome EXCEPT ![CurFile] = "failed"]
    /\ idx' = idx + 1
    /\ UNCHANGED << treeVars, parquet, disk, pc, dir, log,
                    writes, ended, prev, dirty, runs, env >>

\* lines 153-160: one of the four pipeline steps raises; the one handler,
\* except Exception, prints the failure and the loop goes on
ConvertFails ==
    /\ AtFile
    /\ EndsWithTxt(CurName)
    /\ ~SkipCond(log, CurKey, mtime[CurFile])
    /\ outcome' = [outcome EXCEPT ![CurFile] = "failed"]
    /\ idx' = idx + 1
    /\ UNCHANGED << treeVars, parquet, disk, pc, dir, log, updated_log,
                    writes, ended, prev, dirty, runs, env >>

\* line 162: save_conversion_log(log_path, updated_log), then the next directory
SaveLog ==
    /\ pc = "files"
    /\ idx > Len(Filenames(dir))
    /\ disk' = [disk EXCEPT ![dir] = save_conversion_log(updated_log)]
    /\ writes' = [writes EXCEPT ![dir] = @ + 1]
    /\ IF dir < Len(Tree)
       THEN /\ dir' = dir + 1
            /\ pc' = "load"
            /\ UNCHANGED << ended, idx, log, updated_log >>
       ELSE /\ pc' = "idle"
            /\ ended' = "completed"
            /\ log' = EmptyLog
            /\ updated_log' = EmptyLog
            /\ idx' = 1
            /\ UNCHANGED dir
    /\ UNCHANGED << treeVars, parquet, outcome, prev, dirty, runs,
                    env >>

\* the process is interrupted in the middle of a run
Interrupt ==
    /\ pc \in {"load", "files"}
    /\ pc' = "idle"
    /\ ended' = "interrupted"
    /\ log' = EmptyLog
    /\ updated_log' = EmptyLog
    /\ idx' = 1
    /\ UNCHANGED << treeVars, parquet, disk, dir, outcome, writes,
                    prev, dirty, runs, env >>

\* ------------------------------------------------------------------------
\* The tree changes between runs
\* ------------------------------------------------------------------------
EnvStep ==
    /\ pc = "idle"
    /\ env < MaxEnv
    /\ env' = env + 1
    /\ dirty' = TRUE
    /\ UNCHANGED << pc, dir, idx, log, updated_log, outcome,
                    writes, ended, prev, runs >>

\* the file is rewritten or copied: a new modification time
Touch(f) ==
    /\ EnvStep
    /\ present[f]
    /\ mtime[f] < MaxMtime
    /\ mtime' = [mtime EXCEPT ![f] = @ + 1]
    /\ UNCHANGED << present, parquet, disk >>

\* the file's bytes change and its modification time is kept
Edit(f) ==
    /\ EnvStep
    /\ present[f]
    /\ parquet' = [parquet EXCEPT
                      ![f] = IF @ = "none" THEN "none" ELSE "outdated"]
    /\ UNCHANGED << present, mtime, disk >>

\* the file is deleted
Remove(f) ==
    /\ EnvStep
    /\ present[f]
    /\ present' = [present EXCEPT ![f] = FALSE]
    /\ UNCHANGED << mtime, parquet, disk >>

\* the directory's log file is damaged
Corrupt(d) ==
    /\ EnvStep
    /\ disk[d].kind # "bad"
    /\ disk' = [disk EXCEPT ![d] = BadLogFile]
    /\ UNCHANGED << present, mtime, parquet >>


\* ------------------------------------------------------------------------
\* Header locator: retrieve_column_names (lines 29-36)
\*
\* A line is a sequence of atoms: a delimiter or other whitespace character,
\* or a run of non-whitespace characters (a keyword, or some other text).
\* Adjacent runs form one longer word, so a token is a sequence of runs.
\* ------------------------------------------------------------------------
SP == " "
TAB == "\t"
NL == "\n"
FF == "\f"

\* what str.strip() removes and str.split() without argument splits at
Whitespace == {SP, TAB, NL, FF}

\* keywords = {"Rec#", "Cyc#", "State", "DPt-Time"}
keywords == { <<"Rec#">>, <<"Cyc#">>, <<"State">>, <<"DPt-Time">> }

RECURSIVE LStrip(_)
LStrip(s) ==
    IF s # <<>> /\ Head(s) \in Whitespace THEN LStrip(Tail(s)) ELSE s

RECURSIVE RStrip(_)
RStrip(s) ==
    IF s # <<>> /\ s[Len(s)] \in Whitespace
    THEN RStrip(SubSeq(s, 1, Len(s) - 1))
    ELSE s

\* line.strip()
Strip(s) == RStrip(LStrip(s))

\* .replace(" ", "\t")
ReplaceSpaces(s) == [i \in 1..Len(s) |-> IF s[i] = SP THEN TAB ELSE s[i]]

\* .split("\t"): a cut at every separator; adjacent separators give an empty
\* string, and a string without separator gives itself
RECURSIVE SplitAt(_, _)
SplitAt(s, sep) ==
    IF \E k \in 1..Len(s) : s[k] = sep
    THEN LET k == CHOOSE k \in 1..Len(s) :
                      s[k] = sep /\ \A j \in 1..(k - 1) : s[j] # sep
         IN  <<SubSeq(s, 1, k - 1)>> \o SplitAt(SubSeq(s, k + 1, Len(s)), sep)
    ELSE <<s>>

\* the whitespace-separated words of a line, as str.split() gives them
RECURSIVE WordsOf(_)
WordsOf(s) ==
    LET t == LStrip(s)
    IN  IF t = <<>> THEN <<>>
        ELSE LET n == CHOOSE n \in 1..Len(t) :
                          /\ \A j \in 1..n : t[j] \notin Whitespace
                          /\ n = Len(t) \/ t[n + 1] \in Whitespace
             IN  <<SubSeq(t, 1, n)>> \o WordsOf(SubSeq(t, n + 1, Len(t)))

\* faulty variant: the line is split at runs of whitespace
word_list_Words(line) == WordsOf(line)

\* line 33: word_list = line.strip().replace(" ", "\t").split("\t")
word_list(line) == SplitAt(ReplaceSpaces(Strip(line)), TAB)

Range(s) == { s[i] : i \in 1..Len(s) }

\* line 34: keywords.issubset(set(word_list))
IsHeader(line) == keywords \subseteq Range(word_list(line))

\* The lines given to the locator: a list of words joined by one separator,
\* after a lead and before the line's end.
WordLists ==
    { << <<"Rec#">>, <<"Cyc#">>, <<"State">>, <<"DPt-Time">> >>,
      << <<"State">>, <<"x">>, <<"DPt-Time">>, <<"Cyc#">>, <<"Rec#">>, <<"x">> >>,
      << <<"Rec#">>, <<"Cyc#">>, <<"State">> >>,
      << <<"Rec#">>, <<"Cyc#", "State">>, <<"DPt-Time">> >>,
      << <<"x">> >>,
      << >> }

Separators == { <<TAB>>, <<SP>>, <<SP, SP>>, <<FF>> }

Leads == { <<>>, <<SP>> }

Join(words, sep) ==
    LET F[i \in 0..Len(words)] ==
            IF i = 0 THEN <<>>
            ELSE IF i = 1 THEN words[1]
            ELSE F[i - 1] \o sep \o words[i]
    IN  F[Len(words)]

Lines ==
    { lead \o Join(w, sep) \o <<NL>> :
        lead \in Leads, w \in WordLists, sep \in Separators }

TextFiles == UNION { [1..n -> Lines] : n \in 0..MaxLines }

VARIABLES
    hfile,   \* the lines of the file
    hi,      \* enumerate's index of the line the loop is at
    hpc,     \* "scan" | "returned" | "raised"
    hret     \* the returned (i, word_list)

headerVars == << hfile, hi, hpc, hret >>

NoReturn == <<0, <<>> >>

HeaderOff ==
    /\ hfile = <<>>
    /\ hi = 0
    /\ hpc = "off"
    /\ hret = NoReturn

HeaderInit ==
    /\ hfile \in TextFiles
    /\ hi = 0
    /\ hpc = "scan"
    /\ hret = NoReturn

\* lines 34-35: the line holds the keywords: return i, word_list
ReturnHeader ==
    /\ hpc = "scan"
    /\ hi < Len(hfile)
    /\ IsHeader(hfile[hi + 1])
    /\ hret' = <<hi, word_list(hfile[hi + 1])>>
    /\ hpc' = "returned"
    /\ UNCHANGED << hfile, hi >>

\* line 32: the next line
NextLine ==
    /\ hpc = "scan"
    /\ hi < Len(hfile)
    /\ ~IsHeader(hfile[hi + 1])
    /\ hi' = hi + 1
    /\ UNCHANGED << hfile, hpc, hret >>

\* line 36: raise ValueError
RaiseNotFound ==
    /\ hpc = "scan"
    /\ hi = Len(hfile)
    /\ hpc' = "raised"
    /\ UNCHANGED << hfile, hi, hret >>


\* ------------------------------------------------------------------------
\* Properties of the header locator
\* ------------------------------------------------------------------------
Min(S) == CHOOSE x \in S : \A y \in S : x <= y

\* the lines (numbered from 1) that qualify under a tokenisation
Qualifying(tokens(_)) ==
    { i \in 1..Len(hfile) : keywords \subseteq Range(tokens(hfile[i])) }

\* the result the claim gives for a tokenisation
LocatorResultIs(tokens(_)) ==
    /\ hpc = "returned" =>
          /\ Qualifying(tokens) # {}
          /\ hret[1] + 1 = Min(Qualifying(tokens))
          /\ hret[2] = tokens(hfile[hret[1] + 1])
    /\ hpc = "raised" => Qualifying(tokens) = {}

\* C6 (as claimed): the result is (i, tokens) for the first line whose
\* whitespace-separated tokens hold the four keywords, tokens the list of
\* the whitespace-separated tokens of that line; the call fails if and only
\* if no line qualifies.
C6_FirstLineWithKeywordsWords == LocatorResultIs(WordsOf)

\* the pieces of a stripped line between its spaces and tabs, by position
Pieces(line) ==
    LET t == Strip(line)
        D == {0, Len(t) + 1} \cup { k \in 1..Len(t) : t[k] \in {SP, TAB} }
        nth(i) == CHOOSE d \in D : Cardinality({ e \in D : e < d }) = i
    IN  [i \in 1..(Cardinality(D) - 1) |->
            SubSeq(t, nth(i - 1) + 1, nth(i) - 1)]

\* C6 (amended): the result is (i, tokens) for the first line that, stripped
\* and cut at every single space or tab, has the four keywords among its
\* pieces, tokens the list of these pieces in order: adjacent delimiters give
\* an empty piece and other whitespace does not separate; the call fails if
\* and only if no line qualifies.
C6_FirstLineWithKeywordsPieces == LocatorResultIs(Pieces)

\* C6 witness: a header found after a preamble line, with an empty piece
\* among its tokens
C6_Witness ==
    /\ hpc = "returned"
    /\ hret[1] > 0
    /\ <<>> \in Range(hret[2])

\* ------------------------------------------------------------------------
\* Tabular loader: load_dataframe (lines 39-47) and load_dataframe_large
\* (lines 51-91).  A file is a sequence of lines, each line here its own
\* zero-based number: line 0 a preamble, line 1 the header, then the rows.
\* ------------------------------------------------------------------------
HeaderLocation == 1

DataFile(nrows) == [i \in 1..(HeaderLocation + 1 + nrows) |-> i - 1]

\* pl.read_csv(skip_rows=.., n_rows=..): the lines after the skipped ones,
\* at most n_rows of them
read_csv(file, skip_rows, n_rows) ==
    SubSeq(file, skip_rows + 1,
           IF skip_rows + n_rows < Len(file) THEN skip_rows + n_rows
           ELSE Len(file))

\* load_dataframe: the whole file after skip_rows lines
load_dataframe(file, skip_rows) == SubSeq(file, skip_rows + 1, Len(file))

\* line 73: skip_rows=skip + (1 if part==0 else -1)
ChunkSkipRows(skip, part) == skip + (IF part = 0 THEN 1 ELSE -1)

VARIABLES
    lfile,     \* the file
    chunk_rows,
    lpc,       \* "start" | "read" | "check" | "write" | "concat" | "finally"
               \* | "returned" | "raised"
    skip,
    part,
    df,        \* the chunk read last
    tmp,       \* the temporary directory exists
    frags,     \* the fragments in it, in the order of their names
    lazy_df,   \* the rows the returned concatenation stands for
    lerr       \* where the error was raised, "" if none

largeVars == << lfile, chunk_rows, lpc, skip, part, df, tmp, frags,
                lazy_df, lerr >>

LargeOff ==
    /\ lfile = <<>>
    /\ chunk_rows = 1
    /\ lpc = "off"
    /\ skip = 1
    /\ part = 0
    /\ df = <<>>
    /\ tmp = FALSE
    /\ frags = <<>>
    /\ lazy_df = <<>>
    /\ lerr = ""

LargeInit ==
    /\ lfile \in { DataFile(n) : n \in 0..MaxRows }
    /\ chunk_rows \in 1..MaxChunk
    /\ lpc = "start"
    /\ skip = 1
    /\ part = 0
    /\ df = <<>>
    /\ tmp = FALSE
    /\ frags = <<>>
    /\ lazy_df = <<>>
    /\ lerr = ""

\* lines 65-67: tmp = Path(tempfile.mkdtemp()); skip, part = 1, 0
MakeTmp ==
    /\ lpc = "start"
    /\ tmp' = TRUE
    /\ skip' = 1
    /\ part' = 0
    /\ lpc' = "read"
    /\ UNCHANGED << lfile, chunk_rows, df, frags, lazy_df, lerr >>

\* lines 69-77: the chunk is read
ReadChunk ==
    /\ lpc = "read"
    /\ df' = read_csv(lfile, ChunkSkipRows(skip, part), chunk_rows)
    /\ lpc' = "check"
    /\ UNCHANGED << lfile, chunk_rows, skip, part, tmp, frags, lazy_df, lerr >>

\* lines 69-77: pl.read_csv raises
ReadRaises ==
    /\ lpc = "read"
    /\ lerr' = "read"
    /\ lpc' = "finally"
    /\ UNCHANGED << lfile, chunk_rows, skip, part, df, tmp, frags, lazy_df >>

\* lines 78-79: if df.height == 0: break
CheckChunk ==
    /\ lpc = "check"
    /\ lpc' = IF Len(df) = 0 THEN "concat" ELSE "write"
    /\ UNCHANGED << lfile, chunk_rows, skip, part, df, tmp, frags, lazy_df,
                    lerr >>

\* lines 80-82: the fragment is written; skip += df.height; part += 1
WriteFragment ==
    /\ lpc = "write"
    /\ frags' = Append(frags, df)
    /\ skip' = skip + Len(df)
    /\ part' = part + 1
    /\ lpc' = "read"
    /\ UNCHANGED << lfile, chunk_rows, df, tmp, lazy_df, lerr >>

\* line 80: df.write_parquet raises
WriteRaises ==
    /\ lpc = "write"
    /\ lerr' = "write"
    /\ lpc' = "finally"
    /\ UNCHANGED << lfile, chunk_rows, skip, part, df, tmp, frags, lazy_df >>

Concat(fs) ==
    LET F[i \in 0..Len(fs)] == IF i = 0 THEN <<>> ELSE F[i - 1] \o fs[i]
    IN  F[Len(fs)]

\* lines 85-89: the concatenation of the fragments, in the order of their names
BuildConcat ==
    /\ lpc = "concat"
    /\ frags # <<>>
    /\ lazy_df' = Concat(frags)
    /\ lpc' = "finally"
    /\ UNCHANGED << lfile, chunk_rows, skip, part, df, tmp, frags, lerr >>

\* lines 85-87: pl.concat or pl.scan_parquet raises (pl.concat does so when
\* there is no fragment)
ConcatRaises ==
    /\ lpc = "concat"
    /\ lerr' = "concat"
    /\ lpc' = "finally"
    /\ UNCHANGED << lfile, chunk_rows, skip, part, df, tmp, frags, lazy_df >>

\* faulty variant: the directory is removed only before a normal return
Cleanup_OnReturnOnly ==
    /\ lpc = "finally"
    /\ tmp' = (lerr # "")
    /\ frags' = IF lerr = "" THEN <<>> ELSE frags
    /\ lpc' = IF lerr = "" THEN "returned" ELSE "raised"
    /\ UNCHANGED << lfile, chunk_rows, skip, part, df, lazy_df, lerr >>

\* lines 90-91: finally: shutil.rmtree(tmp), then the return or the error
Cleanup ==
    /\ lpc = "finally"
    /\ tmp' = FALSE
    /\ frags' = <<>>
    /\ lpc' = IF lerr = "" THEN "returned" ELSE "raised"
    /\ UNCHANGED << lfile, chunk_rows, skip, part, df, lazy_df, lerr >>

\* ------------------------------------------------------------------------
\* Properties of the loaders
\* ------------------------------------------------------------------------

\* C9: with the header on the second line, the table load_dataframe_large
\* returns has the rows load_dataframe reads from the line after the header,
\* in the same order, none lost or duplicated.
C9_ChunkedEqualsOneBatch ==
    lpc = "returned" => lazy_df = load_dataframe(lfile, HeaderLocation + 1)

\* C10: the temporary directory does not exist once the call has ended,
\* by a return or by an error raised while reading, writing or concatenating.
C10_TmpRemovedOnEveryExit ==
    /\ lpc \in {"returned", "raised"} => ~tmp
    /\ lpc \in {"read", "check", "write", "concat", "finally"} => tmp

\* C10 witness: the call ended by an error raised while a fragment was
\* written, after an earlier fragment had been written
C10_Witness ==
    /\ lpc = "raised"
    /\ lerr = "write"
    /\ part > 0
    /\ ~tmp

\* ------------------------------------------------------------------------
\* Schema normaliser: format_dataframe_to_bdf (lines 96-110), the column
\* 'Test Time / s'
\* ------------------------------------------------------------------------
Max2(a, b) == IF a >= b THEN a ELSE b

\* faulty variant: the column is passed through
cum_max_Identity(col) == col

\* Expr.cum_max(): each row the larger of the row before's result and its own
\* value
cum_max(col) ==
    LET F[i \in 0..Len(col)] ==
            IF i = 0 THEN <<>>
            ELSE IF i = 1 THEN <<col[1]>>
            ELSE Append(F[i - 1], Max2(F[i - 1][i - 1], col[i]))
    IN  F[Len(col)]

VARIABLES
    test_sec,    \* the column 'Test(Sec)' of the raw table
    fpc,         \* "call" | "done"
    test_time    \* the column 'Test Time / s' of the result

formatVars == << test_sec, fpc, test_time >>

FormatOff ==
    /\ test_sec = <<>>
    /\ fpc = "off"
    /\ test_time = <<>>

FormatInit ==
    /\ test_sec \in UNION { [1..n -> 0..MaxVal] : n \in 0..MaxLen }
    /\ fpc = "call"
    /\ test_time = <<>>

\* line 98: pl.col('Test(Sec)').cum_max().alias('Test Time / s')
format_dataframe_to_bdf ==
    /\ fpc = "call"
    /\ test_time' = cum_max(test_sec)
    /\ fpc' = "done"
    /\ UNCHANGED test_sec

\* C7: each row of 'Test Time / s' is the maximum of the raw values from the
\* first row to that row; the column is non-decreasing and as long as the
\* input.
C7_RunningMaximum ==
    fpc = "done" =>
        /\ Len(test_time) = Len(test_sec)
        /\ \A i \in 1..Len(test_sec) :
              /\ \E j \in 1..i : test_time[i] = test_sec[j]
              /\ \A j \in 1..i : test_time[i] >= test_sec[j]
        /\ \A i \in 1..(Len(test_time) - 1) : test_time[i] <= test_time[i + 1]

\* C7 witness: a result for raw values that go down and up again
C7_Witness ==
    /\ fpc = "done"
    /\ Len(test_sec) >= 3
    /\ test_sec[1] > test_sec[2]
    /\ test_sec[2] < test_sec[3]
    /\ test_sec[3] > test_sec[1]

\* ------------------------------------------------------------------------
\* Specifications
\* ------------------------------------------------------------------------
vars == << runnerVars, headerVars, largeVars, formatVars >>

RunnerOnly == UNCHANGED << headerVars, largeVars, formatVars >>
HeaderOnly == UNCHANGED << runnerVars, largeVars, formatVars >>
LargeOnly == UNCHANGED << runnerVars, headerVars, formatVars >>
FormatOnly == UNCHANGED << runnerVars, headerVars, largeVars >>

\* the runner
Init == RunnerInit /\ HeaderOff /\ LargeOff /\ FormatOff

Next ==
    \/ StartRun /\ RunnerOnly
    \/ LoadLog /\ RunnerOnly
    \/ SkipOther /\ RunnerOnly
    \/ SkipUnchanged /\ RunnerOnly
    \/ ConvertOk /\ RunnerOnly
    \/ ConvertFails /\ RunnerOnly
    \/ SaveLog /\ RunnerOnly
    \/ Interrupt /\ RunnerOnly
    \/ \E f \in TxtFiles : Touch(f) /\ RunnerOnly
    \/ \E f \in TxtFiles : Edit(f) /\ RunnerOnly
    \/ \E f \in Files : Remove(f) /\ RunnerOnly
    \/ \E d \in Dirs : Corrupt(d) /\ RunnerOnly

Spec == Init /\ [][Next]_vars

\* retrieve_column_names on a file
InitHeader == RunnerOff /\ HeaderInit /\ LargeOff /\ FormatOff

NextHeader ==
    \/ ReturnHeader /\ HeaderOnly
    \/ NextLine /\ HeaderOnly
    \/ RaiseNotFound /\ HeaderOnly

SpecHeader == InitHeader /\ [][NextHeader]_vars

\* load_dataframe_large on a file
InitLarge == RunnerOff /\ HeaderOff /\ LargeInit /\ FormatOff

NextLarge ==
    \/ MakeTmp /\ LargeOnly
    \/ ReadChunk /\ LargeOnly
    \/ ReadRaises /\ LargeOnly
    \/ CheckChunk /\ LargeOnly
    \/ WriteFragment /\ LargeOnly
    \/ WriteRaises /\ LargeOnly
    \/ BuildConcat /\ LargeOnly
    \/ ConcatRaises /\ LargeOnly
    \/ Cleanup /\ LargeOnly

SpecLarge == InitLarge /\ [][NextLarge]_vars

\* format_dataframe_to_bdf on a table
InitFormat == RunnerOff /\ HeaderOff /\ LargeOff /\ FormatInit

NextFormat == format_dataframe_to_bdf /\ FormatOnly

SpecFormat == InitFormat /\ [][NextFormat]_vars

\* ------------------------------------------------------------------------
\* Properties of the runner
\* ------------------------------------------------------------------------
Candidates(d) == { f \in FilesOf(d) : present[f] /\ EndsWithTxt(f[2]) }

KeyOf(f) == RelPathKey(f[1], f[2])

\* the step taken is the loop body for a .txt file
CandidateStep == AtFile /\ EndsWithTxt(CurName) /\ idx' = idx + 1

\* C1: a candidate file is skipped, and no pipeline step runs for it, if and
\* only if its key is in the log loaded for the directory and the stored
\* value equals the file's modification time; the file's content plays no
\* part.
C1_SkipIffLoggedMtime ==
    [][CandidateStep =>
         /\ (outcome'[CurFile] = "skipped") <=>
                (/\ CurKey \in DOMAIN load_conversion_log(disk[dir])
                 /\ load_conversion_log(disk[dir])[CurKey] = mtime[CurFile])
         /\ outcome'[CurFile] = "skipped" =>
                /\ parquet' = parquet
                /\ updated_log' = updated_log
         /\ outcome'[CurFile] \in {"skipped", "ok", "failed"}
      ]_runnerVars

\* C1 witness: a file whose content changed after its conversion, with the
\* modification time kept, was skipped
C1_Witness ==
    \E f \in TxtFiles :
        /\ outcome[f] = "skipped"
        /\ parquet[f] = "outdated"

\* the log C2 expects on disk: the loaded log with the entry of every file
\* of the directory converted in this run set to its modification time
ExpectedLog(loaded, d) ==
    LET done == { KeyOf(f) : f \in { g \in FilesOf(d) : outcome[g] = "ok" } }
    IN  [k \in DOMAIN loaded \cup done |->
            IF k \in done THEN mtime[<<d, k>>] ELSE loaded[k]]

\* C2: the log saved for a directory is the log loaded for it with the
\* entries of the files converted in this run set to their modification
\* times; failed, skipped and absent files keep what they had (or nothing),
\* and no other directory's log changes.
C2_SavedLogIsLoadedPlusSuccesses ==
    [][(pc = "files" /\ writes'[dir] = writes[dir] + 1) =>
         /\ disk'[dir] = LogFile(ExpectedLog(log, dir))
         /\ \A d \in Dirs \ {dir} : disk'[d] = disk[d]
      ]_runnerVars

\* C2 witness: a directory was saved with a file converted in this run, and
\* its log keeps the entry of a file that is no longer there
C2_Witness ==
    /\ writes[1] = 1
    /\ outcome[<<1, <<"b", "txt">> >>] = "ok"
    /\ ~present[<<1, <<"a", "txt">> >>]
    /\ <<"a", "txt">> \in DOMAIN disk[1].map

\* C3: a failing pipeline never stops the run: a run ends early only by an
\* interruption or by a log that cannot be loaded, every candidate before
\* the loop's position and in every earlier directory was skipped or
\* attempted, and a completed run skipped or attempted every candidate.
C3_FailuresDoNotStopRun ==
    /\ ended = "crashed" => LoadRaises(disk[dir])
    /\ pc # "idle" =>
          /\ \A d \in 1..(dir - 1) : \A f \in Candidates(d) : outcome[f] # "none"
          /\ pc = "files" =>
                \A i \in 1..(idx - 1) :
                    EndsWithTxt(Filenames(dir)[i]) =>
                        outcome[<<dir, Filenames(dir)[i]>>] # "none"
    /\ ended = "completed" =>
          \A d \in Dirs : \A f \in Candidates(d) : outcome[f] # "none"

\* C3 witness: the first file failed and the run completed, the rest of its
\* directory and the next directory attempted
C3_Witness ==
    /\ ended = "completed"
    /\ outcome[<<1, <<"a", "txt">> >>] = "failed"
    /\ outcome[<<1, <<"b", "txt">> >>] = "ok"
    /\ outcome[<<2, <<"a", "txt">> >>] = "failed"

\* this run follows a run that was not interrupted, the tree unchanged between
SecondRunUnchanged ==
    /\ prev.ended \in {"completed", "crashed"}
    /\ ~prev.changed

\* C4: in a second run over an unchanged tree a file is skipped if and only
\* if the first run converted or skipped it; a file that failed is processed
\* again.
C4_SecondRunSkipsExactlyTheDone ==
    SecondRunUnchanged =>
        \A f \in TxtFiles :
            /\ outcome[f] # "none" =>
                  ((outcome[f] = "skipped") <=> (prev.outcome[f] \in {"ok", "skipped"}))
            /\ (outcome[f] # "none" /\ prev.outcome[f] = "failed") =>
                  outcome[f] \in {"ok", "failed"}
            /\ ended \in {"completed", "crashed"} =>
                  ((outcome[f] = "none") <=> (prev.outcome[f] = "none"))

\* C4 witness: the second run ended, having skipped a file the first run
\* converted and a file the first run skipped, and processed again a file
\* that had failed
C4_Witness ==
    /\ SecondRunUnchanged
    /\ ended = "completed"
    /\ \E f \in TxtFiles : prev.outcome[f] = "ok" /\ outcome[f] = "skipped"
    /\ \E f \in TxtFiles : prev.outcome[f] = "skipped" /\ outcome[f] = "skipped"
    /\ \E f \in TxtFiles : prev.outcome[f] = "failed" /\ outcome[f] = "ok"

\* C5: loading a directory's log never aborts the run: a missing or a
\* malformed log file loads as the empty mapping.
C5_LoadNeverAborts ==
    /\ ended # "crashed"
    /\ (pc = "files" /\ disk[dir].kind # "ok") => log = EmptyLog

\* a directory's log is written at most once in a run, only after all its
\* candidates, and once in a completed run; while the directory is being
\* processed the disk holds the content that was loaded
WrittenOnceAfterAll ==
    /\ \A d \in Dirs : writes[d] <= 1
    /\ \A d \in Dirs : writes[d] = 1 =>
          \A f \in Candidates(d) : outcome[f] # "none"
    /\ (pc = "idle" /\ ended = "completed") => \A d \in Dirs : writes[d] = 1
    /\ pc = "files" =>
          /\ writes[dir] = 0
          /\ disk[dir].kind # "bad"
          /\ load_conversion_log(disk[dir]) = log

\* the run after an interrupted one processes again the files of the
\* interrupted directory that had been converted
RedoneAfterInterrupt ==
    (prev.ended = "interrupted" /\ ~prev.changed) =>
        \A f \in FilesOf(prev.dir) :
            (prev.outcome[f] = "ok" /\ outcome[f] # "none") =>
                outcome[f] \in {"ok", "failed"}

\* the run was interrupted, and the tree not changed since
Interrupted == pc = "idle" /\ ended = "interrupted" /\ ~dirty

\* C8 (as claimed): a directory's log is written once per run, after all its
\* candidates; until then the disk holds the previous content; after an
\* interruption the log on disk has no entry for the files converted in this
\* run, and the next run converts them again.
C8_NoEntryAfterInterrupt ==
    /\ WrittenOnceAfterAll
    /\ RedoneAfterInterrupt
    /\ Interrupted =>
          \A f \in FilesOf(dir) :
              outcome[f] = "ok" => KeyOf(f) \notin DOMAIN disk[dir].map

\* C8 (amended): as C8, except that after an interruption the log on disk
\* has no entry recording this run's conversions: the key of a file converted
\* in this run is absent or holds its previous value, which differs from the
\* file's modification time; the next run converts these files again.
C8_NoNewEntryAfterInterrupt ==
    /\ WrittenOnceAfterAll
    /\ RedoneAfterInterrupt
    /\ Interrupted =>
          \A f \in FilesOf(dir) :
              outcome[f] = "ok" =>
                  \/ KeyOf(f) \notin DOMAIN disk[dir].map
                  \/ disk[dir].map[KeyOf(f)] # mtime[f]

\* C8 witness: the run after an interrupted one converts again a file the
\* interrupted run had converted
C8_Witness ==
    /\ prev.ended = "interrupted"
    /\ ~prev.changed
    /\ \E f \in FilesOf(prev.dir) : prev.outcome[f] = "ok" /\ outcome[f] = "ok"

====
